---- MODULE Spec2Model ----
(***************************************************************************)
(* Model of the DatasetPipeline history-mining pipeline:                   *)
(*   TagResolver       pipeline/01_index_repo.py      _collect_tags        *)
(*   CommitIndexer     pipeline/01_index_repo.py      index_repo           *)
(*   CommitSlicer      pipeline/slicer.py             slice_commits        *)
(*   SnapshotExporter  pipeline/02_export_snapshot.py checkout_and_export  *)
(*   DiffBuilder       pipeline/04_diff_snapshot.py   build_diff           *)
(*   MetadataAggregator pipeline/05_build_metadata.py build_metadata       *)
(*   Orchestrator      pipeline/run_pipeline.py       run_pipeline,        *)
(*                                                    process_commit       *)
(*                                                                         *)
(* Python strings that the code takes apart (interval specifiers, tag      *)
(* names, numstat fields, timestamps) are sequences of characters or of    *)
(* fields, so that parsing is computed and not assumed.  Optional values   *)
(* are <<>> (None) or <<v>>.  A call that may raise returns a record       *)
(* [raised, value, error].                                                 *)
(***************************************************************************)
EXTENDS Integers, Sequences, FiniteSets, TLC

VARIABLES
    \* ---- run_pipeline (Orchestrator) and slice_commits
    pc,             \* position in run_pipeline / the component under test
    repo,           \* the repository history in traversal (storage) order
    index_limit,    \* Optional[int]: cap on indexed commits
    commits,        \* the list handed to slice_commits (the index)
    slice_mode,     \* str
    time_interval,  \* Optional[str]
    limit_commits,  \* Optional[int]: cap after slicing
    sliced,         \* result of slice_commits: [raised, value, error]
    idx,            \* position of the for loop over sliced (1-based)
    step,           \* step of process_commit the current commit is at
    failures,       \* list of [commit, error]
    summary,        \* Optional summary document
    attempts,       \* history: hashes process_commit was called with, in order
    raisedAt,       \* history: hash -> set of steps that raised for that commit
    \* ---- _collect_tags
    listing,        \* lines of `git show-ref --tags -d`: <<sha, ref>>
    line_no,        \* next line of the listing to read
    tags,           \* dict sha -> list of tag names
    pending,        \* dict tag name -> sha, as a list of <<name, sha>> in insertion order
    \* ---- checkout_and_export
    tree,           \* file paths of the commit's tree
    exclude,        \* caller-supplied exclusion patterns
    dest,           \* out_dir: [exists, stale, source, repo_root, metadata]
    primary,        \* outcome of _run_git_archive: "none" | "ok" | "raised"
    fallback,       \* outcome of _run_git_worktree: "none" | "ok" | "raised"
    worktrees,      \* temporary working copies registered and not yet torn down
    git_runs,       \* whether the git executable can be launched
    \* ---- build_diff
    numstat,        \* lines of `git diff --numstat`, each a list of fields
    diff_out,       \* result of build_diff
    \* ---- build_metadata
    parsed_doc,     \* Optional parsed.json
    base_meta,      \* snapshot metadata.json (Optional loc)
    meta_out,       \* result of build_metadata
    source_dir,     \* Optional source/ tree build_metadata walks: entries [name, is_file]
    \* ---- process_commit
    fs              \* files under the snapshot root: path -> document

pipeVars   == <<pc, repo, index_limit, commits, slice_mode, time_interval,
                limit_commits, sliced, idx, step, failures, summary, attempts, raisedAt>>
tagVars    == <<listing, line_no, tags, pending>>
exportVars == <<tree, exclude, dest, primary, fallback, worktrees, git_runs>>
diffVars   == <<numstat, diff_out>>
metaVars   == <<parsed_doc, base_meta, meta_out, source_dir>>
vars       == <<pipeVars, tagVars, exportVars, diffVars, metaVars, fs>>

-----------------------------------------------------------------------------
(* Bounds of the model *)

MaxCommits == 3     \* longest commit list
MaxLines   == 3     \* longest numstat listing
MaxFiles   == 2     \* most files in a structural-analysis document

-----------------------------------------------------------------------------
(* Python values *)

None == <<>>
Some(v) == <<v>>
IsNone(x) == x = <<>>
Get(x) == x[1]

Return(v) == [raised |-> FALSE, value |-> v, error |-> ""]
Raise(msg) == [raised |-> TRUE, value |-> <<>>, error |-> msg]

Max(a, b) == IF a >= b THEN a ELSE b
Min(a, b) == IF a <= b THEN a ELSE b

\* seq[:stop] with Python's slice semantics (a negative stop counts from the end)
PySliceTo(s, stop) ==
    LET n == IF stop < 0 THEN Max(Len(s) + stop, 0) ELSE Min(stop, Len(s))
    IN  SubSeq(s, 1, n)

Digits == <<"0", "1", "2", "3", "4", "5", "6", "7", "8", "9">>
IsDigit(c) == \E i \in 1..10 : Digits[i] = c
DigitVal(c) == (CHOOSE i \in 1..10 : Digits[i] = c) - 1

RECURSIVE DigitsVal(_)
DigitsVal(s) ==
    IF s = <<>> THEN 0
    ELSE DigitsVal(SubSeq(s, 1, Len(s) - 1)) * 10 + DigitVal(s[Len(s)])

AllDigits(s) == s # <<>> /\ \A i \in 1..Len(s) : IsDigit(s[i])

\* int(s): None stands for ValueError
PyInt(s) ==
    IF AllDigits(s) THEN Some(DigitsVal(s))
    ELSE IF s # <<>> /\ s[1] = "-" /\ AllDigits(Tail(s)) THEN Some(0 - DigitsVal(Tail(s)))
    ELSE IF s # <<>> /\ s[1] = "+" /\ AllDigits(Tail(s)) THEN Some(DigitsVal(Tail(s)))
    ELSE None

\* str.lower() on the letters the model uses
LowerChar(c) ==
    CASE c = "D" -> "d" [] c = "W" -> "w" [] c = "H" -> "h" [] c = "M" -> "m"
      [] c = "V" -> "v" [] c = "R" -> "r" [] c = "C" -> "c" [] c = "X" -> "x"
      [] c = "P" -> "p" [] c = "Y" -> "y"
      [] OTHER -> c
Lower(s) == [i \in 1..Len(s) |-> LowerChar(s[i])]

RECURSIVE LStrip(_)
LStrip(s) == IF s # <<>> /\ s[1] = " " THEN LStrip(Tail(s)) ELSE s
RECURSIVE RStrip(_)
RStrip(s) ==
    IF s # <<>> /\ s[Len(s)] = " " THEN RStrip(SubSeq(s, 1, Len(s) - 1)) ELSE s
Strip(s) == RStrip(LStrip(s))

EndsWith(s, c) == s # <<>> /\ s[Len(s)] = c
ButLast(s) == SubSeq(s, 1, Len(s) - 1)

-----------------------------------------------------------------------------
(* Timestamps: the UTC ISO-8601 text index_repo writes                     *)
(* (01_index_repo.py:64), as its fields <<day, hour>>.  Sorting compares   *)
(* the text (field by field); _parse_timestamp gives the instant in        *)
(* minutes.                                                                *)

TsLess(a, b) == a[1] < b[1] \/ (a[1] = b[1] /\ a[2] < b[2])

_parse_timestamp(value) == (value[1] * 24 + value[2]) * 60

\* sorted(items, key=lambda c: c["timestamp"], reverse=...): stable
InsertStable(x, s, reverse) ==
    LET Before(a, b) == IF reverse THEN TsLess(b.timestamp, a.timestamp)
                                   ELSE TsLess(a.timestamp, b.timestamp)
        k == Cardinality({i \in 1..Len(s) : ~Before(x, s[i])})
    IN  SubSeq(s, 1, k) \o <<x>> \o SubSeq(s, k + 1, Len(s))

RECURSIVE SortedByTimestamp(_, _)
SortedByTimestamp(s, reverse) ==
    IF s = <<>> THEN <<>>
    ELSE InsertStable(s[Len(s)], SortedByTimestamp(ButLast(s), reverse), reverse)

-----------------------------------------------------------------------------
(* slicer.py *)

_parse_interval(interval) ==
    IF IsNone(interval) \/ Get(interval) = <<>> THEN Return(None)
    ELSE LET s == Lower(Strip(Get(interval)))
             n == PyInt(ButLast(s))
             Delta(unit) == IF IsNone(n) THEN Raise("invalid literal for int()")
                            ELSE Return(Some(Get(n) * unit))
         IN  IF EndsWith(s, "d") THEN Delta(1440)
             ELSE IF EndsWith(s, "w") THEN Delta(10080)
             ELSE IF EndsWith(s, "h") THEN Delta(60)
             ELSE IF EndsWith(s, "m") THEN Delta(1)
             ELSE Raise("Unsupported interval format")

_is_release_tag(tag) ==
    LET t == Lower(tag)
    IN  (t # <<>> /\ t[1] = "v") \/ (\E i \in 1..Len(t) : IsDigit(t[i]))

\* variant of _apply_limit that slices with the cap as given: items[:limit]
_apply_limit_neg(items, limit) ==
    IF IsNone(limit) THEN items ELSE PySliceTo(items, Get(limit))

_apply_limit(items, limit) ==
    IF IsNone(limit) THEN items ELSE PySliceTo(items, Max(Get(limit), 0))

_slice_commit_mode(cs) == cs

_slice_tag_mode(cs) == SelectSeq(cs, LAMBDA c : c.tags # <<>>)

_slice_release_mode(cs) ==
    SelectSeq(cs, LAMBDA c : \E i \in 1..Len(c.tags) : _is_release_tag(c.tags[i]))

\* the loop of _slice_interval_mode over `ordered`, from position i;
\* last_ts is Optional
RECURSIVE IntervalLoop(_, _, _, _, _)
IntervalLoop(ordered, i, last_ts, selected, interval) ==
    IF i > Len(ordered) THEN selected
    ELSE LET ts == _parse_timestamp(ordered[i].timestamp)
         IN  IF IsNone(last_ts) \/ ts - Get(last_ts) >= interval
             THEN IntervalLoop(ordered, i + 1, Some(ts), Append(selected, ordered[i]), interval)
             ELSE IntervalLoop(ordered, i + 1, last_ts, selected, interval)

\* variant of the loop that measures from the last visited commit
RECURSIVE IntervalLoopLastVisited(_, _, _, _, _)
IntervalLoopLastVisited(ordered, i, last_ts, selected, interval) ==
    IF i > Len(ordered) THEN selected
    ELSE LET ts == _parse_timestamp(ordered[i].timestamp)
         IN  IF IsNone(last_ts) \/ ts - Get(last_ts) >= interval
             THEN IntervalLoopLastVisited(ordered, i + 1, Some(ts), Append(selected, ordered[i]), interval)
             ELSE IntervalLoopLastVisited(ordered, i + 1, Some(ts), selected, interval)

\* variant of _slice_interval_mode over the last-visited loop
_slice_interval_mode_visited(cs, interval) ==
    IF interval = 0 THEN cs
    ELSE IF cs = <<>> THEN <<>>
    ELSE SortedByTimestamp(
             IntervalLoopLastVisited(SortedByTimestamp(cs, FALSE), 1, None, <<>>, interval), TRUE)

_slice_interval_mode(cs, interval) ==
    IF interval = 0 THEN cs
    ELSE IF cs = <<>> THEN <<>>
    ELSE SortedByTimestamp(
             IntervalLoop(SortedByTimestamp(cs, FALSE), 1, None, <<>>, interval), TRUE)

\* mode.lower() on the mode names the model uses
LowerMode(mode) ==
    CASE mode = "Tag" -> "tag" [] mode = "TIME-INTERVAL" -> "time-interval" [] OTHER -> mode

\* variant of slice_commits that returns the unfiltered list where the code raises
slice_commits_silent(cs, mode, interval, limit) ==
    LET m == LowerMode(mode)
        commits_sorted == SortedByTimestamp(cs, TRUE)
        delta == _parse_interval(interval)
    IN  IF m = "commit" THEN Return(_apply_limit(_slice_commit_mode(commits_sorted), limit))
        ELSE IF m = "tag" THEN Return(_apply_limit(_slice_tag_mode(commits_sorted), limit))
        ELSE IF m = "release" THEN Return(_apply_limit(_slice_release_mode(commits_sorted), limit))
        ELSE IF m = "time-interval" /\ ~delta.raised /\ ~IsNone(delta.value)
             THEN Return(_apply_limit(_slice_interval_mode(commits_sorted, Get(delta.value)), limit))
        ELSE Return(_apply_limit(commits_sorted, limit))

slice_commits(cs, mode, interval, limit) ==
    LET m == LowerMode(mode)
        commits_sorted == SortedByTimestamp(cs, TRUE)
        delta == _parse_interval(interval)
    IN  IF m = "commit" THEN Return(_apply_limit(_slice_commit_mode(commits_sorted), limit))
        ELSE IF m = "tag" THEN Return(_apply_limit(_slice_tag_mode(commits_sorted), limit))
        ELSE IF m = "release" THEN Return(_apply_limit(_slice_release_mode(commits_sorted), limit))
        ELSE IF m = "time-interval"
             THEN IF delta.raised THEN delta
                  ELSE IF IsNone(delta.value)
                       THEN Raise("time-interval mode requires a valid interval string")
                  ELSE Return(_apply_limit(_slice_interval_mode(commits_sorted, Get(delta.value)), limit))
        ELSE Raise("Unsupported slice mode")

-----------------------------------------------------------------------------
(* Inputs of the model *)

Tag_v1  == <<"v", "1">>
Tag_v2  == <<"v", "2">>
Tag_dev == <<"d", "e", "v">>
Tag_RC2 == <<"R", "C", "2">>

\* the commits of the modelled history; c1 and c2 share a timestamp
CommitPool ==
    { [hash |-> "c1", timestamp |-> <<0, 0>>, tags |-> <<>>],
      [hash |-> "c2", timestamp |-> <<0, 0>>, tags |-> <<Tag_v1>>],
      [hash |-> "c3", timestamp |-> <<0, 1>>, tags |-> <<Tag_dev>>],
      [hash |-> "c4", timestamp |-> <<0, 2>>, tags |-> <<>>],
      [hash |-> "c5", timestamp |-> <<1, 0>>, tags |-> <<Tag_RC2, Tag_dev>>] }

Hashes == {c.hash : c \in CommitPool}

\* lists of at most n distinct commits, in any order
RECURSIVE CommitLists(_)
CommitLists(n) ==
    IF n = 0 THEN {<<>>}
    ELSE LET shorter == CommitLists(n - 1)
             longest == {t \in shorter : Len(t) = n - 1}
         IN  shorter \cup
             UNION { {Append(s, c) : c \in {d \in CommitPool : \A i \in 1..Len(s) : s[i] # d}}
                     : s \in longest }

Modes == {"commit", "tag", "release", "time-interval", "Tag", "TIME-INTERVAL", "bogus"}

Intervals ==
    { None, Some(<<>>), Some(<<" ">>),
      Some(<<"1", "h">>), Some(<<"9", "0", "m">>), Some(<<"1", "d">>), Some(<<"1", "w">>),
      Some(<<"0", "d">>), Some(<<"-", "1", "d">>), Some(<<" ", "2", "H", " ">>),
      Some(<<"5", "x">>), Some(<<"x", "d">>), Some(<<"3", "0">>) }

Limits == {None, Some(0 - 1), Some(0), Some(1), Some(2), Some(5)}

NotCalled == [raised |-> FALSE, value |-> <<>>, error |-> "not called"]

-----------------------------------------------------------------------------
(* Idle values of the components a specification does not exercise *)

IdleTags == listing = <<>> /\ line_no = 0 /\ tags = <<>> /\ pending = <<>>

IdleExport ==
    /\ tree = {} /\ exclude = <<>>
    /\ dest = [exists |-> FALSE, stale |-> FALSE, source |-> None, repo_root |-> None,
              metadata |-> None]
    /\ primary = "none" /\ fallback = "none" /\ worktrees = {} /\ git_runs = TRUE

IdleDiff == numstat = <<>> /\ diff_out = NotCalled

IdleMeta ==
    /\ parsed_doc = None /\ base_meta = [loc |-> None] /\ meta_out = NotCalled
    /\ source_dir = None

-----------------------------------------------------------------------------
(* SpecSlice: slice_commits on every bounded input *)

InitSlice ==
    /\ pc = "slicer.call"
    /\ commits \in CommitLists(MaxCommits)
    /\ slice_mode \in Modes
    /\ time_interval \in Intervals
    /\ limit_commits \in Limits
    /\ repo = <<>> /\ index_limit = None
    /\ sliced = NotCalled /\ idx = 0 /\ step = "none" /\ failures = <<>>
    /\ summary = None /\ attempts = <<>> /\ raisedAt = [h \in Hashes |-> {}]
    /\ fs = {}
    /\ IdleTags /\ IdleExport /\ IdleDiff /\ IdleMeta

SliceCommits ==
    /\ pc = "slicer.call"
    /\ sliced' = slice_commits(commits, slice_mode, time_interval, limit_commits)
    /\ pc' = "slicer.done"
    /\ UNCHANGED <<repo, index_limit, commits, slice_mode, time_interval, limit_commits,
                   idx, step, failures, summary, attempts, raisedAt>>
    /\ UNCHANGED <<tagVars, exportVars, diffVars, metaVars, fs>>

NextSlice == SliceCommits

SpecSlice == InitSlice /\ [][NextSlice]_vars

-----------------------------------------------------------------------------
(* Properties of slice_commits (SpecSlice) *)

Instant(c) == _parse_timestamp(c.timestamp)
Elems(s) == {s[i] : i \in 1..Len(s)}
Abs(n) == IF n < 0 THEN 0 - n ELSE n

SliceReturned == pc = "slicer.done" /\ ~sliced.raised

IntervalCase ==
    /\ SliceReturned
    /\ LowerMode(slice_mode) = "time-interval"
    /\ IsNone(limit_commits)

RequestedInterval == Get(_parse_interval(time_interval).value)

\* C4: in time-interval mode with no cap, any two selected commits are at
\* least the requested interval apart (so are the consecutive pairs of the
\* result sorted ascending); the earliest commit is selected; and every
\* commit left out lies less than one interval after the latest selected
\* commit that is not later than it.
C4_IntervalSpacing ==
    IntervalCase =>
        LET r == sliced.value
            selected == Elems(r)
            input == Elems(commits)
        IN  /\ selected \subseteq input
            /\ \A i, j \in 1..Len(r) :
                   i # j => Abs(Instant(r[i]) - Instant(r[j])) >= RequestedInterval
            /\ input # {} =>
                   \E s \in selected : \A c \in input : Instant(s) <= Instant(c)
            /\ \A c \in input \ selected :
                   \E s \in selected :
                       /\ Instant(s) <= Instant(c)
                       /\ \A t \in selected : Instant(t) <= Instant(c) => Instant(t) <= Instant(s)
                       /\ Instant(c) - Instant(s) < RequestedInterval

\* a 90-minute interval over commits at 0h, 1h and 2h: 1h is left out, 2h is kept
C4_Witness ==
    /\ IntervalCase
    /\ RequestedInterval = 90
    /\ Len(commits) = 3
    /\ Len(sliced.value) = 2
    /\ \E c \in Elems(commits) \ Elems(sliced.value) : Instant(c) = 60

Uncapped == slice_commits(commits, slice_mode, time_interval, None).value

\* C5: with a cap N, slice_commits returns the first min(max(N, 0), L)
\* elements of what it returns with no cap (L its length), in every mode.
C5_Cap ==
    (SliceReturned /\ ~IsNone(limit_commits)) =>
        LET n == Get(limit_commits)
            k == Min(Max(n, 0), Len(Uncapped))
        IN  /\ Len(sliced.value) = k
            /\ \A i \in 1..k : sliced.value[i] = Uncapped[i]

\* a negative cap on a non-empty selection gives the empty result
C5_Witness ==
    /\ SliceReturned
    /\ limit_commits = Some(0 - 1)
    /\ LowerMode(slice_mode) = "release"
    /\ Len(Uncapped) = 2
    /\ sliced.value = <<>>

-----------------------------------------------------------------------------
(* 01_index_repo.py: _collect_tags *)

\* a ref of the listing, as the parts the code takes it apart into
DirectRef(name) == <<"refs/tags/", name>>
DerefRef(name)  == <<"refs/tags/", name, "^{}">>

IsDeref(ref) == ref[Len(ref)] = "^{}"
\* ref.split("refs/tags/")[-1], less the "^{}" suffix of a dereferenced ref
TagName(ref) == ref[2]

\* tags.setdefault(sha, []).append(name)
SetDefaultAppend(d, sha, name) ==
    IF sha \in DOMAIN d THEN [d EXCEPT ![sha] = Append(@, name)]
    ELSE [k \in DOMAIN d \cup {sha} |-> IF k = sha THEN <<name>> ELSE d[k]]

\* pending.pop(name, None)
Pop(p, name) == SelectSeq(p, LAMBDA e : e[1] # name)

\* pending[name] = sha: an existing key keeps its place
SetItem(p, name, sha) ==
    IF \E i \in 1..Len(p) : p[i][1] = name
    THEN [i \in 1..Len(p) |-> IF p[i][1] = name THEN <<name, sha>> ELSE p[i]]
    ELSE Append(p, <<name, sha>>)

\* for tag_name, sha in pending.items(): tags.setdefault(sha, []).append(tag_name)
RECURSIVE CommitPending(_, _)
CommitPending(d, p) ==
    IF p = <<>> THEN d
    ELSE CommitPending(SetDefaultAppend(d, p[1][2], p[1][1]), Tail(p))

TagCommits == {"C", "D"}
TagObject(name) == IF name = Tag_v1 THEN "T1" ELSE "T2"

\* the lines `git show-ref --tags -d` has for one tag
TagLineSets(name) ==
    {{}}
    \cup {{<<c, DirectRef(name)>>} : c \in TagCommits}
    \cup {{<<TagObject(name), DirectRef(name)>>, <<c, DerefRef(name)>>} : c \in TagCommits}

Perms(S) ==
    {f \in [1..Cardinality(S) -> S] : \A i, j \in 1..Cardinality(S) : i # j => f[i] # f[j]}

Listings ==
    UNION {Perms(a \cup b) : a \in TagLineSets(Tag_v1), b \in TagLineSets(Tag_v2)}

InitTags ==
    /\ pc = "tags.call" /\ repo = <<>> /\ index_limit = None /\ commits = <<>>
    /\ slice_mode = "commit" /\ time_interval = None /\ limit_commits = None
    /\ sliced = NotCalled /\ idx = 0 /\ step = "none" /\ failures = <<>>
    /\ summary = None /\ attempts = <<>> /\ raisedAt = [h \in Hashes |-> {}]
    /\ fs = {}
    /\ IdleExport /\ IdleDiff /\ IdleMeta
    /\ listing \in Listings
    /\ line_no = 1
    /\ tags = <<>>
    /\ pending = <<>>

PipeIdle ==
    UNCHANGED <<repo, index_limit, commits, slice_mode, time_interval, limit_commits,
                sliced, idx, step, failures, summary, attempts, raisedAt, fs>>

\* the listing command fails: the empty map is returned (lines 22-23)
TagsListingFails ==
    /\ pc = "tags.call"
    /\ pc' = "tags.done"
    /\ tags' = <<>>
    /\ UNCHANGED <<listing, line_no, pending>>
    /\ PipeIdle /\ UNCHANGED <<exportVars, diffVars, metaVars>>

\* one pass of the loop over the listing's lines (lines 26-36)
TagsReadLine ==
    /\ pc \in {"tags.call", "tags.loop"}
    /\ line_no <= Len(listing)
    /\ LET sha == listing[line_no][1]
           ref == listing[line_no][2]
       IN  \/ /\ IsDeref(ref)
              /\ tags' = SetDefaultAppend(tags, sha, TagName(ref))
              /\ pending' = Pop(pending, TagName(ref))
           \/ /\ ~IsDeref(ref)
              /\ pending' = SetItem(pending, TagName(ref), sha)
              /\ tags' = tags
    /\ line_no' = line_no + 1
    /\ pc' = "tags.loop"
    /\ UNCHANGED listing
    /\ PipeIdle /\ UNCHANGED <<exportVars, diffVars, metaVars>>

\* the listing is read: the pending tags are committed (lines 38-41)
TagsCommitPending ==
    /\ pc \in {"tags.call", "tags.loop"}
    /\ line_no > Len(listing)
    /\ tags' = CommitPending(tags, pending)
    /\ pc' = "tags.done"
    /\ UNCHANGED <<listing, line_no, pending>>
    /\ PipeIdle /\ UNCHANGED <<exportVars, diffVars, metaVars>>

NextTags == TagsListingFails \/ TagsReadLine \/ TagsCommitPending

SpecTags == InitTags /\ [][NextTags]_vars

\* the listing of the scenario: v1 annotated (tag object T1, commit C),
\* v2 lightweight on commit D, in some order
ScenarioListing ==
    Elems(listing) = { <<"T1", DirectRef(Tag_v1)>>, <<"C", DerefRef(Tag_v1)>>,
                       <<"D", DirectRef(Tag_v2)>> }

TagsReturned == pc = "tags.done" /\ line_no > Len(listing)

\* C3: for every order of the scenario's lines, _collect_tags returns
\* {C: [v1], D: [v2]}; the tag object T1 is never a key.
C3_TagsAnyOrder ==
    (TagsReturned /\ ScenarioListing) =>
        /\ DOMAIN tags = {"C", "D"}
        /\ tags["C"] = <<Tag_v1>>
        /\ tags["D"] = <<Tag_v2>>

-----------------------------------------------------------------------------
(* 02_export_snapshot.py *)

\* A path is the list of its components; a pattern is a list of tokens, so
\* that pattern.strip() is computed (" " is a token of white space).
DEFAULT_EXCLUDES == << <<"tests">>, <<"docs">> >>

PathUniverse ==
    { <<"a.py">>, <<"tests", "t.py">>, <<"docs", "d.md">>, <<"src", "b.py">>,
      <<"src", "tests", "t.py">>, <<"src", "docs">>, <<"lib", "build", "x.py">>,
      <<"build", "y">> }

CallerExcludes == { <<>>, << <<"build">> >>, << <<" ", "build", " ">> >> }

\* excludes = list(DEFAULT_EXCLUDES); excludes.extend(exclude)   (lines 86-88)
Excludes(extra) == DEFAULT_EXCLUDES \o extra

\* git archive <commit> -- :(exclude)<pattern> ...  (lines 18-30): a pathspec
\* without wildcards matches a path of the tree by its leading components
\* from the root of the repository; blank patterns are dropped.
PathspecMatches(pattern, path) ==
    /\ Len(pattern) <= Len(path)
    /\ \A k \in 1..Len(pattern) : path[k] = pattern[k]

ArchiveFiles(files, excludes) ==
    {p \in files :
        ~\E i \in 1..Len(excludes) :
            Strip(excludes[i]) # <<>> /\ PathspecMatches(Strip(excludes[i]), p)}

\* the working copy `git worktree add` checks out: the tree and the .git file
WorkingCopy(files) == files \cup {<<".git">>}

\* shutil.copytree(..., ignore=shutil.ignore_patterns(".git", *exclude))
\* (lines 60-63): in every directory, the names equal to a pattern are skipped.
WorktreeFiles(files, excludes) ==
    LET ignore_patterns == << <<".git">> >> \o excludes
    IN  {p \in WorkingCopy(files) :
            ~\E i \in 1..Len(ignore_patterns), k \in 1..Len(p) :
                ignore_patterns[i] = <<p[k]>>}

\* what an interrupted unpack or copy may leave behind
Partial(files) == {{}} \cup {{f} : f \in files}

\* try: _run_git_archive(...)  except Exception: _run_git_worktree(...)
\* (lines 90-93): where control goes after the primary tier
\* variant that catches RuntimeError only: a missing repo/ root propagates
AfterPrimaryOnlyRuntimeError(outcome) ==
    IF outcome = "ok" THEN "export.meta"
    ELSE IF outcome \in {"no_root", "launch_error"} THEN "export.raised"
    ELSE "export.worktree"

AfterPrimary(outcome) ==
    IF outcome = "ok" THEN "export.meta" ELSE "export.worktree"

InitExport ==
    /\ pc = "export.call" /\ repo = <<>> /\ index_limit = None /\ commits = <<>>
    /\ slice_mode = "commit" /\ time_interval = None /\ limit_commits = None
    /\ sliced = NotCalled /\ idx = 0 /\ step = "none" /\ failures = <<>>
    /\ summary = None /\ attempts = <<>> /\ raisedAt = [h \in Hashes |-> {}]
    /\ fs = {}
    /\ IdleTags /\ IdleDiff /\ IdleMeta
    /\ tree \in SUBSET PathUniverse
    /\ exclude \in CallerExcludes
    /\ dest \in { [exists |-> FALSE, stale |-> FALSE, source |-> None, repo_root |-> None,
                   metadata |-> None],
                  [exists |-> TRUE, stale |-> TRUE, source |-> Some({<<"old.py">>}),
                   repo_root |-> None, metadata |-> Some([commit |-> "old"])] }
    /\ primary = "none" /\ fallback = "none" /\ worktrees = {}
    /\ git_runs \in BOOLEAN

ExportFrame == PipeIdle /\ UNCHANGED <<tagVars, diffVars, metaVars>> /\ UNCHANGED git_runs

\* lines 80-88: the destination is destroyed and recreated
ExportPrepare ==
    /\ pc = "export.call"
    /\ dest' = [exists |-> TRUE, stale |-> FALSE, source |-> None, repo_root |-> None,
                metadata |-> None]
    /\ pc' = "export.archive"
    /\ UNCHANGED <<tree, exclude, primary, fallback, worktrees>>
    /\ ExportFrame

\* _run_git_archive (lines 16-50), with the ways it ends:
\*   ok            unpacked, return code 0, repo/ renamed to source/
\*   stream_error  tarfile raises while unpacking; what was unpacked stays
\*   rc_nonzero    unpacked in part or not at all, git archive failed
\*   no_root       return code 0 and no repo/ was created
\*   launch_error  Popen raises: git cannot be launched (line 32)
RunGitArchive ==
    /\ pc = "export.archive"
    /\ LET files == ArchiveFiles(tree, Excludes(exclude))
       IN  \E outcome \in IF git_runs THEN {"ok", "stream_error", "rc_nonzero", "no_root"}
                                       ELSE {"launch_error"} :
             /\ \/ /\ outcome = "ok"
                   /\ dest' = [dest EXCEPT !.source = Some(files), !.repo_root = None]
                \/ /\ outcome \in {"stream_error", "rc_nonzero"}
                   /\ \E left \in {None} \cup {Some(f) : f \in Partial(files)} :
                          dest' = [dest EXCEPT !.repo_root = left]
                \/ /\ outcome = "no_root"
                   /\ dest' = [dest EXCEPT !.source = None]
                \/ /\ outcome = "launch_error"
                   /\ dest' = dest
             /\ primary' = IF outcome = "ok" THEN "ok" ELSE "raised"
             /\ pc' = AfterPrimary(outcome)
    /\ UNCHANGED <<tree, exclude, fallback, worktrees>>
    /\ ExportFrame

\* _run_git_worktree, the try block (lines 54-63), after mkdtemp made the
\* temporary directory:
\*   add_failed   `git worktree add` fails, or git cannot be launched
\*   copy_failed  rmtree/copytree raises; what was copied stays
\*   ok           source/ holds the copy
RunGitWorktree ==
    /\ pc = "export.worktree"
    /\ LET files == WorktreeFiles(tree, Excludes(exclude))
       IN  \/ /\ worktrees' = {"on_disk"}
              /\ fallback' = "raising"
              /\ dest' = dest
           \/ /\ git_runs
              /\ worktrees' = {"on_disk", "registered"}
              /\ fallback' = "raising"
              /\ \E left \in {None} \cup {Some(f) : f \in Partial(files)} :
                     dest' = [dest EXCEPT !.source = left]
           \/ /\ git_runs
              /\ worktrees' = {"on_disk", "registered"}
              /\ fallback' = "returning"
              /\ dest' = [dest EXCEPT !.source = Some(files)]
    /\ pc' = "export.teardown"
    /\ UNCHANGED <<tree, exclude, primary>>
    /\ ExportFrame

\* _run_git_worktree, the finally block (lines 64-69): `git worktree remove -f`
\* with check=False (its failure is ignored), then rmtree(ignore_errors=True).
\* When git cannot be launched subprocess.run raises whatever check is, and
\* the exception leaves the finally block before rmtree.
WorktreeTeardown ==
    /\ pc = "export.teardown"
    /\ \/ /\ git_runs
          /\ worktrees' = {}
       \/ /\ git_runs
          /\ "registered" \in worktrees
          /\ worktrees' = {"registered"}
       \/ /\ ~git_runs
          /\ worktrees' = worktrees
    /\ fallback' = IF fallback = "returning" THEN "ok" ELSE "raised"
    /\ pc' = IF fallback = "returning" THEN "export.meta" ELSE "export.raised"
    /\ UNCHANGED <<tree, exclude, dest, primary>>
    /\ ExportFrame

\* lines 95-105: the snapshot metadata document
WriteSnapshotMeta ==
    /\ pc = "export.meta"
    /\ dest' = [dest EXCEPT !.metadata = Some([commit |-> "new"])]
    /\ pc' = "export.done"
    /\ UNCHANGED <<tree, exclude, primary, fallback, worktrees>>
    /\ ExportFrame

NextExport ==
    ExportPrepare \/ RunGitArchive \/ RunGitWorktree \/ WorktreeTeardown \/ WriteSnapshotMeta

SpecExport == InitExport /\ [][NextExport]_vars

\* C6: the files the fallback tier places under source/ are the files the
\* primary tier places there for the same commit and exclusion patterns.
C6_FallbackEquivalence ==
    (pc = "export.done" /\ fallback = "ok") =>
        Get(dest.source) = ArchiveFiles(tree, Excludes(exclude))

FallbackRan == fallback # "none"

\* C7: the fallback tier runs if and only if the primary tier raised; when the
\* fallback tier fails too the error reaches the caller and no metadata
\* document is written; the metadata document is written only after a tier
\* completed and produced source/.
C7_FallbackAndMetadata ==
    /\ FallbackRan => primary = "raised"
    /\ (primary = "raised" /\ pc \in {"export.meta", "export.done", "export.raised"})
           => FallbackRan
    /\ pc = "export.raised" =>
           primary = "raised" /\ fallback = "raised" /\ IsNone(dest.metadata)
    /\ (pc # "export.call" /\ ~IsNone(dest.metadata)) =>
           /\ pc = "export.done"
           /\ primary = "ok" \/ fallback = "ok"
           /\ ~IsNone(dest.source)

\* the primary tier raised, the fallback tier completed, the document is written
C7_Witness ==
    /\ pc = "export.done"
    /\ primary = "raised"
    /\ fallback = "ok"
    /\ ~IsNone(dest.metadata)

\* _run_git_worktree has returned or raised
FallbackLeft == fallback \in {"ok", "raised"}

\* C12: once the fallback tier has returned or raised, whichever way it ended
\* (creation failed, copy failed, success), the temporary working copy it
\* made is neither registered nor on disk.
C12_WorktreeTornDown ==
    FallbackLeft => worktrees = {}

\* C15: when checkout_and_export has returned, by either tier, the destination
\* holds source/ and the metadata document and nothing else: nothing of an
\* earlier artifact, and no repo/ root left by a failed primary tier.
C15_DestinationExact ==
    pc = "export.done" =>
        /\ dest.exists /\ ~dest.stale
        /\ ~IsNone(dest.source)
        /\ ~IsNone(dest.metadata) /\ Get(dest.metadata).commit = "new"
        /\ IsNone(dest.repo_root)

-----------------------------------------------------------------------------
(* 04_diff_snapshot.py *)

\* A numstat line is the list of its tab-separated fields; the added and
\* deleted fields are digit strings or "-"; the blank line is <<>>.
IsBlank(line) == line = <<>>

\* variant of the loop of _collect_numstat that does not list binary files
RECURSIVE NumstatLoopSkipBinary(_, _, _, _, _)
NumstatLoopSkipBinary(lines, i, files, total_added, total_deleted) ==
    IF i > Len(lines) THEN Return([files |-> files, added |-> total_added, deleted |-> total_deleted])
    ELSE LET line == lines[i]
         IN  IF IsBlank(line) THEN NumstatLoopSkipBinary(lines, i + 1, files, total_added, total_deleted)
             ELSE IF Len(line) # 3 THEN Raise("not enough values to unpack")
             ELSE IF line[1] = <<"-">>
                  THEN NumstatLoopSkipBinary(lines, i + 1, files, total_added, total_deleted)
             ELSE IF IsNone(PyInt(line[1])) \/ IsNone(PyInt(line[2]))
                  THEN Raise("invalid literal for int()")
             ELSE NumstatLoopSkipBinary(lines, i + 1,
                      Append(files, [path |-> line[3], lines_added |-> Get(PyInt(line[1])),
                                     lines_deleted |-> Get(PyInt(line[2]))]),
                      total_added + Get(PyInt(line[1])), total_deleted + Get(PyInt(line[2])))

\* the loop of _collect_numstat (lines 36-47) from line i on
RECURSIVE NumstatLoop(_, _, _, _, _)
NumstatLoop(lines, i, files, total_added, total_deleted) ==
    IF i > Len(lines) THEN Return([files |-> files, added |-> total_added, deleted |-> total_deleted])
    ELSE LET line == lines[i]
             binary == line[1] = <<"-">>
             added == IF binary THEN Some(0) ELSE PyInt(line[1])
             deleted == IF binary THEN Some(0) ELSE PyInt(line[2])
         IN  IF IsBlank(line) THEN NumstatLoop(lines, i + 1, files, total_added, total_deleted)
             ELSE IF Len(line) # 3 THEN Raise("not enough values to unpack")
             ELSE IF IsNone(added) \/ IsNone(deleted) THEN Raise("invalid literal for int()")
             ELSE NumstatLoop(lines, i + 1,
                      Append(files, [path |-> line[3], lines_added |-> Get(added),
                                     lines_deleted |-> Get(deleted)]),
                      total_added + Get(added), total_deleted + Get(deleted))

\* variant of _collect_numstat over the loop that skips binary files
_collect_numstat_skip_binary(lines) == NumstatLoopSkipBinary(lines, 1, <<>>, 0, 0)

_collect_numstat(lines) == NumstatLoop(lines, 1, <<>>, 0, 0)

\* build_diff (lines 60-72); git_ok: the git commands of the parent, numstat
\* and patch retrieval succeed
build_diff(lines, git_ok) ==
    LET stat == _collect_numstat(lines)
    IN  IF ~git_ok THEN Raise("CalledProcessError")
        ELSE IF stat.raised THEN stat
        ELSE Return([files_changed |-> stat.value.files,
                     lines_added |-> stat.value.added,
                     lines_deleted |-> stat.value.deleted])

NumstatPaths == {"x.py", "img.png"}

NumstatLines ==
    { <<a, d, p>> : a \in {<<"0">>, <<"3">>, <<"1", "2">>}, d \in {<<"0">>, <<"2">>},
                    p \in NumstatPaths }
    \cup { <<<<"-">>, <<"-">>, p>> : p \in NumstatPaths }
    \cup { <<>>, << <<"3">>, "x.py" >>, << <<"3">>, <<"-">>, "x.py" >> }

InitDiff ==
    /\ pc = "diff.call" /\ repo = <<>> /\ index_limit = None /\ commits = <<>>
    /\ slice_mode = "commit" /\ time_interval = None /\ limit_commits = None
    /\ sliced = NotCalled /\ idx = 0 /\ step = "none" /\ failures = <<>>
    /\ summary = None /\ attempts = <<>> /\ raisedAt = [h \in Hashes |-> {}]
    /\ fs = {}
    /\ IdleTags /\ IdleExport /\ IdleMeta
    /\ numstat \in UNION {[1..n -> NumstatLines] : n \in 0..MaxLines}
    /\ diff_out = NotCalled

BuildDiff ==
    /\ pc = "diff.call"
    /\ \E git_ok \in BOOLEAN : diff_out' = build_diff(numstat, git_ok)
    /\ pc' = "diff.done"
    /\ UNCHANGED numstat
    /\ PipeIdle /\ UNCHANGED <<tagVars, exportVars, metaVars>>

NextDiff == BuildDiff

SpecDiff == InitDiff /\ [][NextDiff]_vars

RECURSIVE SumOf(_, _)
SumOf(files, field) ==
    IF files = <<>> THEN 0 ELSE files[1][field] + SumOf(Tail(files), field)

DiffReturned == pc = "diff.done" /\ ~diff_out.raised

\* C8: in the record build_diff returns, lines_added and lines_deleted are the
\* sums over files_changed; the listed files appear once each, in listing
\* order; a binary file is listed with 0 added and 0 deleted.
C8_DiffAggregate ==
    DiffReturned =>
        LET d == diff_out.value
            listed == SelectSeq(numstat, LAMBDA line : ~IsBlank(line))
        IN  /\ d.lines_added = SumOf(d.files_changed, "lines_added")
            /\ d.lines_deleted = SumOf(d.files_changed, "lines_deleted")
            /\ Len(d.files_changed) = Len(listed)
            /\ \A i \in 1..Len(listed) :
                   /\ d.files_changed[i].path = listed[i][3]
                   /\ listed[i][1] = <<"-">> =>
                          /\ d.files_changed[i].lines_added = 0
                          /\ d.files_changed[i].lines_deleted = 0

\* a listing with a binary file between two text files
C8_Witness ==
    /\ DiffReturned
    /\ Len(numstat) = 3
    /\ ~IsBlank(numstat[2])
    /\ numstat[2][1] = <<"-">>
    /\ diff_out.value.lines_added = 15
    /\ diff_out.value.lines_deleted = 2
    /\ Len(diff_out.value.files_changed) = 3

-----------------------------------------------------------------------------
(* 05_build_metadata.py *)

\* PurePath.suffix: the name from its last dot on, when that dot is neither
\* the first nor the last character
LastDot(name) ==
    LET dots == {i \in 1..Len(name) : name[i] = "."}
    IN  IF dots = {} THEN 0 ELSE CHOOSE i \in dots : \A j \in dots : j <= i

Suffix(name) ==
    LET i == LastDot(name)
    IN  IF 1 < i /\ i < Len(name) THEN SubSeq(name, i, Len(name)) ELSE <<>>

\* the bucket of one file (lines 25-29)
Bucket(name) == IF Lower(Suffix(name)) = <<".", "p", "y">> THEN "python" ELSE "other"

\* _count_files_and_languages (lines 16-30): source is the Optional set of the
\* entries rglob("*") yields; languages is the dict bucket -> count
_count_files_and_languages(source) ==
    LET files == IF IsNone(source) THEN {} ELSE {e \in Get(source) : e.is_file}
        keys == {Bucket(e.name) : e \in files}
    IN  [file_count |-> Cardinality(files),
         languages |-> [k \in keys |-> Cardinality({e \in files : Bucket(e.name) = k})]]

\* sorted(languages.keys())
SortedKeys(languages) ==
    (IF "other" \in DOMAIN languages THEN <<"other">> ELSE <<>>)
        \o (IF "python" \in DOMAIN languages THEN <<"python">> ELSE <<>>)

\* a or b, for two lists
PyOrList(a, b) == IF a # <<>> THEN a ELSE b

\* info.get("loc", 0)
LocOf(info) == IF IsNone(info.loc) THEN 0 ELSE Get(info.loc)

RECURSIVE SumLoc(_)
SumLoc(infos) == IF infos = <<>> THEN 0 ELSE LocOf(infos[1]) + SumLoc(Tail(infos))

\* _load_json: a missing document is {}; the `files` of {} are {}
FilesOf(doc) == IF IsNone(doc) THEN <<>> ELSE Get(doc).files

\* _summarize_ast (lines 33-47); the entries of `files` as a list
_summarize_ast(doc) == [files |-> Len(FilesOf(doc)), loc |-> SumLoc(FilesOf(doc))]

\* a or b, for an int a and an Optional b
PyOr(a, b) == IF a # 0 THEN Some(a) ELSE b

\* build_metadata (lines 50-81)
build_metadata(doc, base, source) ==
    LET counted == _count_files_and_languages(source)
        ast_summary == _summarize_ast(doc)
        loc_total == PyOr(ast_summary.loc, base.loc)
    IN  Return([num_files |-> counted.file_count,
                loc |-> loc_total,
                languages |-> PyOrList(SortedKeys(counted.languages), <<"python">>),
                ast_summary |-> ast_summary])

\* entries of a source/ tree: files with and without the .py suffix, a hidden
\* file named .py, and a directory named like a source file
SourceEntries ==
    { [name |-> <<"a", ".", "p", "y">>, is_file |-> TRUE],
      [name |-> <<"b", ".", "P", "Y">>, is_file |-> TRUE],
      [name |-> <<"c", ".", "m", "d">>, is_file |-> TRUE],
      [name |-> <<".", "p", "y">>, is_file |-> TRUE],
      [name |-> <<"m", "k">>, is_file |-> TRUE],
      [name |-> <<"d", ".", "p", "y">>, is_file |-> FALSE] }

FileInfos == {[loc |-> l] : l \in {None, Some(0), Some(2), Some(3)}}

InitMeta ==
    /\ pc = "meta.call" /\ repo = <<>> /\ index_limit = None /\ commits = <<>>
    /\ slice_mode = "commit" /\ time_interval = None /\ limit_commits = None
    /\ sliced = NotCalled /\ idx = 0 /\ step = "none" /\ failures = <<>>
    /\ summary = None /\ attempts = <<>> /\ raisedAt = [h \in Hashes |-> {}]
    /\ fs = {}
    /\ IdleTags /\ IdleExport /\ IdleDiff
    /\ parsed_doc \in {None} \cup
           {Some([files |-> f]) : f \in UNION {[1..n -> FileInfos] : n \in 0..MaxFiles}}
    /\ base_meta \in {[loc |-> l] : l \in {None, Some(0), Some(7)}}
    /\ meta_out = NotCalled
    /\ source_dir \in {None} \cup {Some(t) : t \in SUBSET SourceEntries}

BuildMetadata ==
    /\ pc = "meta.call"
    /\ meta_out' = build_metadata(parsed_doc, base_meta, source_dir)
    /\ pc' = "meta.done"
    /\ UNCHANGED <<parsed_doc, base_meta, source_dir>>
    /\ PipeIdle /\ UNCHANGED <<tagVars, exportVars, diffVars>>

NextMeta == BuildMetadata

SpecMeta == InitMeta /\ [][NextMeta]_vars

\* C9: when the structural-analysis document is present, the aggregated loc is
\* the analyzer's total (the sum of the per-file loc), also when it is 0; the
\* snapshot metadata's loc is used only when the document is absent.
C9_LocPrefersAnalyzer ==
    pc = "meta.done" =>
        IF IsNone(parsed_doc)
        THEN meta_out.value.loc = base_meta.loc
        ELSE meta_out.value.loc = Some(SumLoc(Get(parsed_doc).files))

\* the files of the source/ tree: what is_file() accepts
TreeFiles == IF IsNone(source_dir) THEN {} ELSE {e \in Get(source_dir) : e.is_file}
LanguageSet == {meta_out.value.languages[i] : i \in 1..Len(meta_out.value.languages)}

\* C13: num_files is the number of files of the source/ tree; languages holds
\* python iff a file with the .py suffix exists, other iff another file exists,
\* and is empty when the tree has no files or is missing.
C13_FilesAndLanguages ==
    pc = "meta.done" =>
        /\ meta_out.value.num_files = Cardinality(TreeFiles)
        /\ "python" \in LanguageSet <=> \E e \in TreeFiles : Bucket(e.name) = "python"
        /\ "other" \in LanguageSet <=> \E e \in TreeFiles : Bucket(e.name) = "other"
        /\ LanguageSet \subseteq {"python", "other"}
        /\ TreeFiles = {} => meta_out.value.languages = <<>>

-----------------------------------------------------------------------------
(* 01_index_repo.py: index_repo *)

\* the commits recorded by the traversal loop (lines 51-70): the loop stops
\* once `limit_commits and len(commits) >= limit_commits` holds
Recorded(traversal, limit) ==
    IF IsNone(limit) \/ Get(limit) = 0 THEN traversal
    ELSE SubSeq(traversal, 1, Min(Max(Get(limit), 1), Len(traversal)))

\* index_repo with the default sort order (lines 72-74)
index_repo(traversal, limit) == SortedByTimestamp(Recorded(traversal, limit), TRUE)

-----------------------------------------------------------------------------
(* SpecIndex: index_repo on every bounded history and cap *)

InitIndex ==
    /\ pc = "index.call"
    /\ repo \in CommitLists(MaxCommits)
    /\ index_limit \in Limits
    /\ commits = <<>>
    /\ slice_mode = "commit" /\ time_interval = None /\ limit_commits = None
    /\ sliced = NotCalled /\ idx = 0 /\ step = "none" /\ failures = <<>>
    /\ summary = None /\ attempts = <<>> /\ raisedAt = [h \in Hashes |-> {}]
    /\ fs = {}
    /\ IdleTags /\ IdleExport /\ IdleDiff /\ IdleMeta

IndexRepoCall ==
    /\ pc = "index.call"
    /\ commits' = index_repo(repo, index_limit)
    /\ pc' = "index.done"
    /\ UNCHANGED <<repo, index_limit, slice_mode, time_interval, limit_commits,
                   sliced, idx, step, failures, summary, attempts, raisedAt>>
    /\ UNCHANGED <<tagVars, exportVars, diffVars, metaVars, fs>>

NextIndex == IndexRepoCall

SpecIndex == InitIndex /\ [][NextIndex]_vars

\* the first min(N, total) commits of the traversal
FirstN(traversal, n) == SubSeq(traversal, 1, Min(n, Len(traversal)))

\* C11: with a cap N >= 0 supplied, index_repo returns the first min(N, total)
\* commits of the traversal, sorted by timestamp; N = 0 included.
C11_IndexCap ==
    (pc = "index.done" /\ ~IsNone(index_limit) /\ Get(index_limit) >= 0) =>
        commits = SortedByTimestamp(FirstN(repo, Get(index_limit)), TRUE)

-----------------------------------------------------------------------------
(* run_pipeline.py *)

PoolByHash(h) == CHOOSE c \in CommitPool : c.hash = h

\* the history in storage order, which is not chronological
Traversal ==
    << PoolByHash("c3"), PoolByHash("c1"), PoolByHash("c5"), PoolByHash("c2"),
       PoolByHash("c4") >>

PipeModes == {"commit", "release", "time-interval", "bogus"}
PipeIntervals == {None, Some(<<>>), Some(<<"1", "h">>), Some(<<"5", "x">>)}
PipeLimits == {None, Some(2)}
IndexLimits == {None, Some(2)}

\* the steps of process_commit (lines 108-118), in order
StepAfter(name) ==
    CASE name = "export" -> "parse" [] name = "parse" -> "diff"
      [] name = "diff" -> "aggregate" [] OTHER -> "none"

\* the for loop after `except Exception` (lines 157-163): where it goes on
\* variant that leaves the loop at the first failure
AfterFailureBreak(i, n) == n + 1

AfterFailure(i, n) == i + 1

\* the summary document (lines 165-171)
\* variant that counts processed against the indexed commits
SummaryOfIndexed(all, selected, failed) ==
    [total_commits |-> Len(all),
     processed |-> Len(all) - Len(failed),
     failed |-> failed]

SummaryOf(all, selected, failed) ==
    [total_commits |-> Len(all),
     processed |-> Len(selected) - Len(failed),
     failed |-> failed]

InitPipeline ==
    /\ pc = "run.index"
    /\ repo \in {SubSeq(Traversal, 1, n) : n \in 0..MaxCommits}
    /\ index_limit \in IndexLimits
    /\ commits = <<>>
    /\ slice_mode \in PipeModes
    /\ time_interval \in PipeIntervals
    /\ limit_commits \in PipeLimits
    /\ sliced = NotCalled /\ idx = 0 /\ step = "none" /\ failures = <<>>
    /\ summary = None /\ attempts = <<>> /\ raisedAt = [h \in Hashes |-> {}]
    /\ fs = {}
    /\ IdleTags /\ IdleExport /\ IdleDiff /\ IdleMeta

PipeFrame == UNCHANGED <<tagVars, exportVars, diffVars, metaVars, fs>>
ConfigFrame == UNCHANGED <<repo, index_limit, slice_mode, time_interval, limit_commits>>

\* lines 140-145: acquisition and indexing; their errors end the run
IndexRepo ==
    /\ pc = "run.index"
    /\ \/ /\ commits' = index_repo(repo, index_limit)
          /\ pc' = "run.slice"
       \/ /\ commits' = commits
          /\ pc' = "run.raised_in_index"
    /\ UNCHANGED <<sliced, idx, step, failures, summary, attempts, raisedAt>>
    /\ ConfigFrame /\ PipeFrame

\* lines 147-153: slicing; its error leaves run_pipeline
Slice ==
    /\ pc = "run.slice"
    /\ sliced' = slice_commits(commits, slice_mode, time_interval, limit_commits)
    /\ pc' = IF sliced'.raised THEN "run.raised_in_slice" ELSE "run.loop"
    /\ idx' = 1
    /\ UNCHANGED <<commits, step, failures, summary, attempts, raisedAt>>
    /\ ConfigFrame /\ PipeFrame

\* lines 157-160: the loop takes the next commit and calls process_commit
StartCommit ==
    /\ pc = "run.loop"
    /\ idx <= Len(sliced.value)
    /\ attempts' = Append(attempts, sliced.value[idx].hash)
    /\ step' = "export"
    /\ pc' = "run.commit"
    /\ UNCHANGED <<commits, sliced, idx, failures, summary, raisedAt>>
    /\ ConfigFrame /\ PipeFrame

\* one step of process_commit: it returns, or it raises and the handler of
\* run_pipeline (lines 161-163) records the failure and the loop goes on
ProcessStep(name) ==
    /\ pc = "run.commit"
    /\ step = name
    /\ LET h == sliced.value[idx].hash
       IN  \/ /\ step' = StepAfter(name)
              /\ pc' = IF StepAfter(name) = "none" THEN "run.loop" ELSE "run.commit"
              /\ idx' = IF StepAfter(name) = "none" THEN idx + 1 ELSE idx
              /\ UNCHANGED <<failures, raisedAt>>
           \/ /\ raisedAt' = [raisedAt EXCEPT ![h] = @ \cup {name}]
              /\ failures' = Append(failures, [commit |-> h, error |-> name])
              /\ step' = "none"
              /\ idx' = AfterFailure(idx, Len(sliced.value))
              /\ pc' = "run.loop"
    /\ UNCHANGED <<commits, sliced, summary, attempts>>
    /\ ConfigFrame /\ PipeFrame

Export == ProcessStep("export")
Parse == ProcessStep("parse")
Diff == ProcessStep("diff")
Aggregate == ProcessStep("aggregate")

\* lines 165-176: the summary
Summarize ==
    /\ pc = "run.loop"
    /\ idx > Len(sliced.value)
    /\ summary' = Some(SummaryOf(commits, sliced.value, failures))
    /\ pc' = "run.done"
    /\ UNCHANGED <<commits, sliced, idx, step, failures, attempts, raisedAt>>
    /\ ConfigFrame /\ PipeFrame

NextPipeline ==
    IndexRepo \/ Slice \/ StartCommit \/ Export \/ Parse \/ Diff \/ Aggregate \/ Summarize

SpecPipeline == InitPipeline /\ [][NextPipeline]_vars

Selected == sliced.value
SelectedHashes == {Selected[i].hash : i \in 1..Len(Selected)}
InLoop == pc \in {"run.loop", "run.commit", "run.done"}
EntriesFor(h) == {i \in 1..Len(failures) : failures[i].commit = h}

\* C1: the selected commits are attempted once each, in slice order, whatever
\* raises; a commit that raised is in the failures list, and the run reaches
\* its end only after every selected commit was attempted.
C1_PerCommitIsolation ==
    InLoop =>
        /\ Len(attempts) <= Len(Selected)
        /\ \A i \in 1..Len(attempts) : attempts[i] = Selected[i].hash
        /\ \A h \in Hashes : raisedAt[h] # {} => EntriesFor(h) # {}
        /\ pc = "run.done" => Len(attempts) = Len(Selected)

\* the first of three selected commits raised and the third was processed
C1_Witness ==
    /\ pc = "run.done"
    /\ Len(Selected) = 3
    /\ raisedAt[Selected[1].hash] # {}
    /\ raisedAt[Selected[3].hash] = {}
    /\ Len(attempts) = 3

\* C2: a run past indexing and slicing ends with a summary: total_commits is
\* the number of indexed commits, failed has one entry for each selected commit
\* that raised and none for the others, processed is selected minus failed.
C2_Summary ==
    /\ InLoop => (pc = "run.done" <=> ~IsNone(summary))
    /\ pc \in {"run.loop", "run.commit"} => ENABLED NextPipeline
    /\ pc = "run.done" =>
           LET doc == Get(summary)
           IN  /\ doc.total_commits = Len(commits)
               /\ doc.failed = failures
               /\ \A i \in 1..Len(doc.failed) : doc.failed[i].commit \in SelectedHashes
               /\ \A h \in SelectedHashes :
                      Cardinality(EntriesFor(h)) = IF raisedAt[h] # {} THEN 1 ELSE 0
               /\ \A i \in 1..Len(doc.failed) :
                      raisedAt[doc.failed[i].commit] = {doc.failed[i].error}
               /\ doc.processed = Len(Selected) - Len(doc.failed)
               /\ doc.processed + Len(doc.failed) = Len(Selected)
               /\ doc.processed >= 0

\* two of three indexed commits are selected, one of them failed
C2_Witness ==
    /\ pc = "run.done"
    /\ Len(commits) = 3
    /\ Len(Selected) = 2
    /\ Len(failures) = 1
    /\ Get(summary).processed = 1

KnownModes == {"commit", "tag", "release", "time-interval"}

\* the configuration errors of the slicer: an unknown mode, or time-interval
\* mode with no interval, an empty one, or one whose suffix is none of d w h m
ConfigError ==
    \/ LowerMode(slice_mode) \notin KnownModes
    \/ /\ LowerMode(slice_mode) = "time-interval"
       /\ \/ IsNone(time_interval)
          \/ Get(time_interval) = <<>>
          \/ LET s == Lower(Strip(Get(time_interval)))
             IN  s = <<>> \/ s[Len(s)] \notin {"d", "w", "h", "m"}

\* C10: under a slicing configuration error slice_commits raises, the run
\* ends there, and no per-commit step is ever started.
C10_ConfigErrorBeforeCommits ==
    /\ (ConfigError /\ pc \notin {"run.index", "run.raised_in_index", "run.slice"})
           => pc = "run.raised_in_slice" /\ sliced.raised
    /\ ConfigError => attempts = <<>> /\ step = "none"
    /\ pc = "run.raised_in_slice" =>
           attempts = <<>> /\ failures = <<>> /\ IsNone(summary) /\ ~ENABLED NextPipeline

\* an interval with an unsupported suffix, over an index of three commits
C10_Witness ==
    /\ pc = "run.raised_in_slice"
    /\ Len(commits) = 3
    /\ slice_mode = "time-interval"
    /\ time_interval = Some(<<"5", "x">>)

-----------------------------------------------------------------------------
(* run_pipeline.py: process_commit and the files it leaves under the        *)
(* commit's output location.  A path is the list of its components; fs is   *)
(* the set of [path, doc]; a document is [kind, commit, keys].              *)

\* dir / name
Join(dir, name) == Append(dir, name)

\* snapshot_root / commit_hash (line 160)
SnapshotDir(h) == <<"snapshots", h>>

IsUnder(path, dir) == Len(path) >= Len(dir) /\ SubSeq(path, 1, Len(dir)) = dir

\* shutil.rmtree(dir)
RmTree(f, dir) == {e \in f : ~IsUnder(e.path, dir)}

\* with open(path, "w") as f: json.dump(doc, f)
WriteFile(f, path, doc) == {e \in f : e.path # path} \cup {[path |-> path, doc |-> doc]}

\* _load_json (05_build_metadata.py lines 9-13): None stands for {}
_load_json(f, path) ==
    IF \E e \in f : e.path = path THEN Some((CHOOSE e \in f : e.path = path).doc)
    ELSE None

Doc(kind, commit, keys) == [kind |-> kind, commit |-> commit, keys |-> keys]

\* export_metadata (lines 98-106)
ExportMetadataKeys ==
    {"commit", "timestamp", "message", "author", "author_email", "parent", "tags"}

\* snapshot_meta (02_export_snapshot.py lines 95-102)
SnapshotMeta(commit_hash, metadata_keys) ==
    Doc("snapshot", commit_hash, metadata_keys \cup {"commit", "exported_at", "source_dir"})

DiffDoc(commit_hash) ==
    Doc("diff", commit_hash,
        {"commit", "parent", "files_changed", "lines_added", "lines_deleted", "patch"})

\* metadata (05_build_metadata.py lines 62-76):
\* commit is base_meta.get("commit") or diff.get("commit")
AggregatedMeta(base, diff) ==
    Doc("aggregated",
        IF ~IsNone(base) THEN Get(base).commit
        ELSE IF ~IsNone(diff) THEN Get(diff).commit ELSE "",
        {"commit", "timestamp", "message", "parent", "num_files", "loc", "languages",
         "stats", "ast_summary"})

\* checkout_and_export on out_dir (02_export_snapshot.py lines 80-104): the
\* destination is destroyed; a failed primary tier may leave repo/; a tier
\* that completed leaves source/; then metadata.json is written in out_dir
ExportOutcomes == {"primary", "fallback", "fallback_after_unpack", "raised", "raised_after_unpack"}

checkout_and_export(f, commit_hash, out_dir, metadata_keys, outcome) ==
    LET cleared == RmTree(f, out_dir)
        unpacked == IF outcome \in {"fallback_after_unpack", "raised_after_unpack"}
                    THEN WriteFile(cleared, Join(out_dir, "repo"), Doc("tree", commit_hash, {}))
                    ELSE cleared
        source == WriteFile(unpacked, Join(out_dir, "source"), Doc("tree", commit_hash, {}))
    IN  IF outcome \in {"raised", "raised_after_unpack"} THEN unpacked
        ELSE WriteFile(source, Join(out_dir, "metadata.json"),
                       SnapshotMeta(commit_hash, metadata_keys))

\* build_metadata(snapshot_dir, out_path) on the files (05_build_metadata.py
\* lines 51-55 and 78-80)
build_metadata_file(f, snapshot_dir, out_path) ==
    WriteFile(f, out_path,
              AggregatedMeta(_load_json(f, Join(snapshot_dir, "metadata.json")),
                             _load_json(f, Join(snapshot_dir, "diff.json"))))

\* the commit process_commit is called with, and its paths (lines 92-96)
commit_hash == commits[1].hash
snapshot_dir == SnapshotDir(commit_hash)
parsed_path == Join(snapshot_dir, "parsed.json")
diff_path == Join(snapshot_dir, "diff.json")
metadata_path == Join(snapshot_dir, "metadata.json")

\* what an earlier run may have left under the snapshot root
LeftOver(h) ==
    { [path |-> Join(SnapshotDir(h), "metadata.json"),
       doc |-> AggregatedMeta(Some(SnapshotMeta(h, ExportMetadataKeys)), None)],
      [path |-> Join(SnapshotDir(h), "parsed.json"), doc |-> Doc("parsed", h, {"files"})],
      [path |-> Join(SnapshotDir("c0"), "metadata.json"),
       doc |-> AggregatedMeta(Some(SnapshotMeta("c0", ExportMetadataKeys)), None)] }

InitCommit ==
    /\ pc = "commit.export"
    /\ commits \in {<<c>> : c \in CommitPool}
    /\ repo = <<>> /\ index_limit = None
    /\ slice_mode = "commit" /\ time_interval = None /\ limit_commits = None
    /\ sliced = NotCalled /\ idx = 0 /\ step = "none" /\ failures = <<>>
    /\ summary = None /\ attempts = <<>> /\ raisedAt = [h \in Hashes |-> {}]
    /\ fs \in SUBSET LeftOver(commits[1].hash)
    /\ IdleTags /\ IdleExport /\ IdleDiff /\ IdleMeta

CommitFrame ==
    /\ UNCHANGED <<repo, index_limit, commits, slice_mode, time_interval, limit_commits,
                   sliced, idx, step, failures, summary, attempts, raisedAt>>
    /\ UNCHANGED <<tagVars, exportVars, diffVars, metaVars>>

\* line 108
CommitExport ==
    /\ pc = "commit.export"
    /\ \E outcome \in ExportOutcomes :
         /\ fs' = checkout_and_export(fs, commit_hash, snapshot_dir, ExportMetadataKeys,
                                      outcome)
         /\ pc' = IF outcome \in {"raised", "raised_after_unpack"}
                  THEN "commit.raised" ELSE "commit.parse"
    /\ CommitFrame

\* lines 110-112
CommitParse ==
    /\ pc = "commit.parse"
    /\ \/ /\ fs' = WriteFile(fs, parsed_path, Doc("parsed", commit_hash, {"files"}))
          /\ pc' = "commit.diff"
       \/ /\ fs' = fs
          /\ pc' = "commit.raised"
    /\ CommitFrame

\* lines 114-116
CommitDiff ==
    /\ pc = "commit.diff"
    /\ \/ /\ fs' = WriteFile(fs, diff_path, DiffDoc(commit_hash))
          /\ pc' = "commit.aggregate"
       \/ /\ fs' = fs
          /\ pc' = "commit.raised"
    /\ CommitFrame

\* lines 118-120
CommitAggregate ==
    /\ pc = "commit.aggregate"
    /\ \/ /\ fs' = build_metadata_file(fs, snapshot_dir, metadata_path)
          /\ pc' = "commit.done"
       \/ /\ fs' = fs
          /\ pc' = "commit.raised"
    /\ CommitFrame

NextCommit == CommitExport \/ CommitParse \/ CommitDiff \/ CommitAggregate

SpecCommit == InitCommit /\ [][NextCommit]_vars

DocsAt(path) == {e.doc : e \in {x \in fs : x.path = path}}

\* C14: after process_commit has returned, the snapshot metadata document the
\* Export step wrote (caller fields, commit, exported_at, source_dir) is
\* still in the commit's output location, unchanged, and the aggregated
\* record is there beside it.
C14_SnapshotMetaKept ==
    pc = "commit.done" =>
        /\ \E e \in fs :
              /\ IsUnder(e.path, snapshot_dir)
              /\ e.doc = SnapshotMeta(commit_hash, ExportMetadataKeys)
        /\ \E e \in fs :
              /\ IsUnder(e.path, snapshot_dir)
              /\ e.doc.kind = "aggregated" /\ e.doc.commit = commit_hash

====
